---------------------------- MODULE Spec2Model ----------------------------
(***************************************************************************)
(* A model of the compositional perturbation autoencoder (cpa):            *)
(*   - CPAModule (src/cpa/_module.py): construction, inference,            *)
(*     generative, loss, adversarial_loss, disentanglement;                *)
(*   - CPA.setup_anndata (src/cpa/_model.py): perturbation / dosage rows.  *)
(*                                                                         *)
(* Tensors are sequences: a (B, n) tensor is a sequence of B rows, each a  *)
(* sequence of n integers; a 1-D tensor is a sequence of integers.  Real   *)
(* arithmetic is carried out on integers (weights, expressions and doses   *)
(* are small integers), so "a = b" stands for "a ~ b up to rounding".      *)
(***************************************************************************)
EXTENDS Integers, Sequences, FiniteSets, TLC

VARIABLES
    module,             \* <<>> or <<m>>: the constructed CPAModule instance
    construct_exc,      \* "" or the exception CPAModule.__init__ raised
    tensors,            \* <<>> or <<t>>: the batch handed to the module
    inference_outputs,  \* <<>> or <<r>>: outcome of CPAModule.inference
    generative_outputs, \* <<>> or <<r>>: outcome of CPAModule.generative
    loss_out,           \* <<>> or <<r>>: outcome of CPAModule.loss
    adv_out,            \* <<>> or <<r>>: outcome of CPAModule.adversarial_loss
    cf_outputs,         \* <<>> or <<r>>: a second inference+generative pass
    dis_out,            \* <<>> or <<r>>: outcome of CPAModule.disentanglement
    adata,              \* <<>> or <<a>>: the annotated data given to setup_anndata
    setup_out,          \* <<>> or <<r>>: the outcome of the last setup_anndata call
    cls,                \* the class attributes CPA.pert_encoder and CPA.covars_encoder
    CPA_REGISTRY_KEYS,  \* the registry keys that setup_anndata assigns
    r2_out,             \* <<>> or <<r>>: outcome of CPAModule.r2_metric
    cpa,                \* <<>> or <<m>>: the model instance made by CPA(adata)
    restored,           \* <<>> or <<m>>: the model instance returned by CPA.load
    disk,               \* the directories models are saved to and loaded from
    latent_out,         \* <<>> or <<r>>: outcome of get_latent_representation
    expression_out,     \* <<>> or <<r>>: outcome of module.get_expression
    train_out           \* <<>> or <<r>>: outcome of train, with the saves it made

vars == <<module, construct_exc, tensors, inference_outputs, generative_outputs,
          loss_out, adv_out, cf_outputs, dis_out, adata, setup_out, cls, CPA_REGISTRY_KEYS,
          r2_out, cpa, restored, disk, latent_out, expression_out, train_out>>

moduleVars == <<module, construct_exc, tensors, inference_outputs,
                generative_outputs, loss_out, adv_out, cf_outputs>>

---------------------------------------------------------------------------
(* Bounds of the model.                                                    *)

\* largest batch size B handed to the module
MaxBatch == 2
\* largest max_comb_len (L): slots of a perturbation combination
MaxCombLen == 2
\* latent dimension n_latent of the modelled modules
NLatent == 2
\* number of genes n_genes of the modelled modules
NGenes == 2

---------------------------------------------------------------------------
(* Generic helpers.                                                        *)

None == <<>>
Some(x) == <<x>>
IsSome(o) == Len(o) = 1
Get(o) == o[1]

\* outcome of a call: a returned value, or a raised exception
Returned(v) == [ok |-> TRUE, exc |-> "", val |-> v]
Raised(e) == [ok |-> FALSE, exc |-> e, val |-> <<>>]

RECURSIVE SumSeq(_)
SumSeq(s) == IF s = <<>> THEN 0 ELSE Head(s) + SumSeq(Tail(s))

RECURSIVE SumOver(_, _)
SumOver(S, f) == IF S = {} THEN 0 ELSE LET x == CHOOSE y \in S : TRUE IN f[x] + SumOver(S \ {x}, f)

MaxOf(s) == CHOOSE m \in {s[i] : i \in DOMAIN s} : \A i \in DOMAIN s : s[i] <= m

Abs(n) == IF n < 0 THEN -n ELSE n

\* floor(log2(n)) for n >= 1
RECURSIVE Log2(_)
Log2(n) == IF n <= 1 THEN 0 ELSE 1 + Log2(n \div 2)

\* elementwise sum of two vectors of the same length
VecAdd(a, b) == [k \in DOMAIN a |-> a[k] + b[k]]

\* sum over dim 0 of a non-empty (N, n) tensor: a vector of length n
SumDim0(rows) == [k \in DOMAIN rows[1] |-> SumSeq([i \in DOMAIN rows |-> rows[i][k]])]

\* torch.cat(list, 0) of a sequence of (B, n) tensors
RECURSIVE Cat0(_)
Cat0(list) == IF list = <<>> THEN <<>> ELSE Head(list) \o Cat0(Tail(list))

\* tensor.view(-1,) of a (B, L) tensor: the B*L entries in row-major order
Flatten(rows) == Cat0(rows)

\* an ordering of a finite set of strings (the iteration order of a dict's keys)
RECURSIVE KeyOrder(_)
KeyOrder(S) == IF S = {} THEN <<>> ELSE LET x == CHOOSE y \in S : TRUE IN <<x>> \o KeyOrder(S \ {x})


---------------------------------------------------------------------------
(* CPAModule: parameters and sub-networks.                                 *)

\* the perturbation vocabulary of the modelled modules (index = position - 1)
\* and its size n_drugs
DrugVocabulary == <<"<PAD>", "control", "drugA", "drugB">>
NDrugs == Len(DrugVocabulary)
\* index of the padding token in the perturbation vocabulary
PADDING_IDX == 0
\* default of the constructor's seed argument
DefaultSeed == 0

\* the loss_ae strings handed to the constructor
LossNames == {"gauss", "mse", "nb", "zinb"}

\* the covars_encoder dictionaries handed to the constructor:
\* covariate name -> number of categories (len(unique_covars))
CovarsEncoders == { [c \in {} |-> 2], [c \in {"cell_type"} |-> 2], [c \in {"loss"} |-> 2], [c \in {"adv"} |-> 1], [c \in {"drugs"} |-> 1], [c \in {"cell_type", "batch"} |-> IF c = "batch" THEN 1 ELSE 2] }

\* a number per sub-network, used to derive its parameters from the seed
CovarTag(c) == CASE c = "cell_type" -> 3 [] c = "batch" -> 4 [] c = "loss" -> 5 [] c = "adv" -> 6 [] c = "drugs" -> 7 [] OTHER -> 8

\* the parameter (i, j) of sub-network tag, as initialised from the seed
Weight(seed, tag, i, j) == ((seed * 7 + tag * 5 + i * 3 + j * 2) % 5) - 2

\* CPAModule.__init__: the instance, or the exception raised
CPAModuleInit(n_genes, n_drugs, covars_encoder, n_latent, loss_ae, variational, seed) ==
    LET self == [n_genes |-> n_genes, n_drugs |-> n_drugs, n_latent |-> n_latent,
                 loss_ae |-> loss_ae, variational |-> variational,
                 covars_encoder |-> covars_encoder, seed |-> seed,
                 encoder |-> IF variational THEN "Encoder" ELSE "FCLayers",
                 l_encoder |-> loss_ae = "nb"]
    IN  IF loss_ae \in {"gauss", "mse"} THEN Returned(self @@ [decoder |-> "DecoderGauss"])
        ELSE IF loss_ae = "nb" THEN Returned(self @@ [decoder |-> "DecoderNB"])
        ELSE Raised("Exception: Invalid Loss function for Autoencoder")

\* self.encoder(x_) for one cell: (qz_m, scale, latent_basal); the variational
\* encoder draws latent_basal = qz_m + scale * eps (eps the sampled noise),
\* the deterministic one returns the point code
EncoderMean(self, x) == [k \in 1..self.n_latent |-> SumSeq([g \in 1..self.n_genes |-> Weight(self.seed, 1, g, k) * x[g]])]
EncoderScale(self, x) == [k \in 1..self.n_latent |-> 1 + ((Abs(SumSeq(x)) + k) % 2)]
Encoder(self, x, eps) ==
    IF self.variational
    THEN [k \in 1..self.n_latent |-> EncoderMean(self, x)[k] + EncoderScale(self, x)[k] * eps]
    ELSE EncoderMean(self, x)

\* self.l_encoder(x_) for one cell: a (1,) library estimate
LEncoder(self, x) == <<SumSeq([g \in 1..self.n_genes |-> Weight(self.seed, 2, g, 1) * x[g]])>>

\* self.covars_embedding[covar](idx): row idx of the embedding table
CovarEmbedding(self, covar, idx) == [k \in 1..self.n_latent |-> Weight(self.seed, CovarTag(covar), idx, k)]

\* self.drug_network(drugs, doses) for one cell: the per-slot embeddings scaled
\* by the (linear) dose response and summed over the slots; the padding index
\* and a zero dosage contribute zero
DrugEmbedding(self, d) == [k \in 1..self.n_latent |-> IF d = PADDING_IDX THEN 0 ELSE Weight(self.seed, 9, d, k)]
DrugNetwork(self, drugs, doses) == [k \in 1..self.n_latent |-> SumSeq([j \in DOMAIN drugs |-> DrugEmbedding(self, drugs[j])[k] * doses[j]])]

\* a classifier head FCLayers(n_in = n_latent, n_out) applied to one latent code
Classifier(self, tag, n_out, z) == [c \in 1..n_out |-> SumSeq([k \in 1..self.n_latent |-> Weight(self.seed, tag, k, c) * z[k]])]

\* gradient of the summed logits of a head with respect to one latent code
ClassifierGrad(self, tag, n_out) == [k \in 1..self.n_latent |-> SumSeq([c \in 1..n_out |-> Weight(self.seed, tag, k, c)])]

\* DecoderGauss: per-gene mean and strictly positive variance for one cell
DecoderGaussMean(self, z) == [g \in 1..self.n_genes |-> SumSeq([k \in 1..self.n_latent |-> Weight(self.seed, 12, k, g) * z[k]])]
DecoderGaussVar(self, z) == [g \in 1..self.n_genes |-> 1 + (Abs(SumSeq([k \in 1..self.n_latent |-> Weight(self.seed, 13, k, g) * z[k]])) % 4)]

\* DecoderNB: the count distribution for one cell (rates and dispersion px_r)
DecoderNB(self, z) == [mu |-> [g \in 1..self.n_genes |-> 1 + Abs(DecoderGaussMean(self, z)[g])], theta |-> [g \in 1..self.n_genes |-> 1 + Abs(Weight(self.seed, 14, g, 1))]]

---------------------------------------------------------------------------
(* CPAModule: the forward computation.                                     *)

\* a dict: a function from string keys; d[k] = v adds or overwrites key k
EmptyDict == [k \in {} |-> 0]
DictSet(d, k, v) == [x \in (DOMAIN d) \cup {k} |-> IF x = k THEN v ELSE d[x]]

\* a 1-D tensor with its shape; squeeze(-1) drops a last dimension of size 1
Tensor1D(data) == [shape |-> <<Len(data)>>, data |-> data]
SqueezeLast(t) == IF t.shape # <<>> /\ t.shape[Len(t.shape)] = 1 THEN [shape |-> SubSeq(t.shape, 1, Len(t.shape) - 1), data |-> t.data] ELSE t

\* CPAModule._get_inference_input
GetInferenceInput(self, t) ==
    [genes |-> t["X"], drugs |-> t["drug_name"], doses |-> t["dose_value"],
     covars_dict |-> [covar \in DOMAIN self.covars_encoder |-> Flatten(t[covar])]]

\* a library estimate computed whatever the likelihood
LibraryAlways(self, genes) == Some([i \in DOMAIN genes |-> LEncoder(self, genes[i])])

\* the library entry of the inference step: self.l_encoder(x_) for the
\* count likelihood, None otherwise
Library(self, genes) == IF self.loss_ae = "nb" THEN Some([i \in DOMAIN genes |-> LEncoder(self, genes[i])]) ELSE None

\* CPAModule.inference; eps is the noise drawn by the variational encoder
Inference(self, genes, drugs, doses, covars_dict, eps) ==
    LET batch_size == Len(genes)
        cells == 1..batch_size
        latent_basal == [i \in cells |-> Encoder(self, genes[i], eps)]
        dist_qzbasal == IF self.variational
                        THEN Some([loc |-> [i \in cells |-> EncoderMean(self, genes[i])],
                                   scale |-> [i \in cells |-> EncoderScale(self, genes[i])]])
                        ELSE None
        library == Library(self, genes)
        covars == KeyOrder(DOMAIN self.covars_encoder)
        latent_covariates_list == [n \in DOMAIN covars |-> [i \in cells |-> CovarEmbedding(self, covars[n], covars_dict[covars[n]][i])]]
    IN  IF latent_covariates_list = <<>>
        THEN Raised("RuntimeError: torch.cat(): expected a non-empty list of Tensors")
        ELSE LET latent_covariates == SumDim0(Cat0(latent_covariates_list))
                 latent_treatment == [i \in cells |-> DrugNetwork(self, drugs[i], doses[i])]
                 latent == [i \in cells |-> VecAdd(VecAdd(latent_basal[i], latent_covariates), latent_treatment[i])]
             IN  Returned([latent |-> latent, latent_basal |-> latent_basal, dist_qz |-> dist_qzbasal,
                           library |-> library, covars_dict |-> covars_dict])

\* CPAModule._get_generative_input
GetGenerativeInput(self, t, io) ==
    IF self.loss_ae = "nb"
    THEN [library |-> io.library, latent |-> io.latent, latent_basal |-> io.latent_basal]
    ELSE [latent |-> io.latent, latent_basal |-> io.latent_basal]

\* the logits of the perturbation head and of every covariate head on codes z
HeadsOn(self, z) ==
    [drugs_pred |-> [i \in DOMAIN z |-> Classifier(self, 10, self.n_drugs, z[i])],
     covars_pred |-> [covar \in DOMAIN self.covars_encoder |-> [i \in DOMAIN z |-> Classifier(self, 20 + CovarTag(covar), self.covars_encoder[covar], z[i])]]]

\* a generative step whose heads read the combined latent
AdversaryHeadsOnLatent(self, latent, latent_basal) == HeadsOn(self, latent)

\* the heads of the generative step: drugs_classifier(latent_basal) and
\* covars_classifiers[covar](latent_basal)
AdversaryHeads(self, latent, latent_basal) == HeadsOn(self, latent_basal)

\* CPAModule.generative
Generative(self, latent, latent_basal) ==
    LET heads == AdversaryHeads(self, latent, latent_basal)
    IN  IF self.loss_ae = "nb"
        THEN [dist_px |-> [i \in DOMAIN latent |-> DecoderNB(self, latent[i])], drugs_pred |-> heads.drugs_pred, covars_pred |-> heads.covars_pred]
        ELSE [means |-> [i \in DOMAIN latent |-> DecoderGaussMean(self, latent[i])],
              variances |-> [i \in DOMAIN latent |-> DecoderGaussVar(self, latent[i])],
              drugs_pred |-> heads.drugs_pred, covars_pred |-> heads.covars_pred]

\* module.generative(**input_dict), as the forward pass calls it: the method
\* takes latent and latent_basal and no other keyword
GenerativeKw(self, input_dict) ==
    IF DOMAIN input_dict # {"latent", "latent_basal"}
    THEN Raised("TypeError: generative() got an unexpected keyword argument 'library'")
    ELSE Returned(Generative(self, input_dict.latent, input_dict.latent_basal))

\* the Gaussian negative log-likelihood of one entry, times 2, on integers:
\* log(variance) + (x - mean)^2 / variance, with log as floor(log2)
GaussTerm(x, mean, variance) == Log2(variance) + (((x - mean) * (x - mean)) \div variance)

\* CPAModule.loss: the reconstruction loss (times 2), or the exception raised
Loss(self, t, io, go) ==
    LET x == t["X"]
    IN  IF "means" \notin DOMAIN go THEN Raised("KeyError: 'means'")
        ELSE IF "variances" \notin DOMAIN go THEN Raised("KeyError: 'variances'")
        ELSE IF self.loss_ae \in {"gauss", "mse"}
        THEN Returned(SumSeq([i \in DOMAIN x |-> SumSeq([g \in DOMAIN x[i] |-> GaussTerm(x[i][g], go.means[i][g], go.variances[i][g])])]) \div (Len(x) * self.n_genes))
        ELSE Raised("Exception: Invalid Loss function for CPA")

\* nn.CrossEntropyLoss on (N, C) logits and N class indices: raises unless the
\* target is a 1-D tensor of N entries; the value is the batch total of an
\* integer surrogate of -log softmax(pred)[target] (0 for a single class)
CrossEntropyLoss(pred, target) ==
    IF target.shape # <<Len(pred)>>
    THEN Raised("ValueError: Expected input batch_size to match target batch_size")
    ELSE Returned(SumSeq([i \in DOMAIN pred |-> MaxOf(pred[i]) - pred[i][target.data[i] + 1] + Len(pred[i]) - 1]))

\* torch.autograd.grad(pred.sum(), latent_basal)[0].pow(2).mean() of a head
GradPenalty(self, tag, n_out, latent_basal) ==
    LET grad == ClassifierGrad(self, tag, n_out)
    IN  SumSeq([i \in DOMAIN latent_basal |-> SumSeq([k \in DOMAIN grad |-> grad[k] * grad[k]])]) \div (Len(latent_basal) * self.n_latent)

\* the keys f'adv_{covar}' and f'penalty_{covar}' of a covariate's head
AdvKey(covar) == "adv_" \o covar
\* a penalty stored under the classification-loss key
PenaltyKeyAsAdvKey(covar) == "adv_" \o covar
PenaltyKey(covar) == "penalty_" \o covar

\* the perturbation targets of the adversarial step: tensors["drug_name"].view(-1,)
DrugTargets(t) == Tensor1D(Flatten(t["drug_name"]))

\* the loop "for covar in covars_encoder.keys(): adv_results[f'adv_{covar}'] = ..."
RECURSIVE SetCovarLosses(_, _, _, _)
SetCovarLosses(adv_results, keys, covars_pred, covars_dict) ==
    IF keys = <<>> THEN Returned(adv_results)
    ELSE LET covar == Head(keys)
             ce == CrossEntropyLoss(covars_pred[covar], SqueezeLast(Tensor1D(covars_dict[covar])))
         IN  IF ~ce.ok THEN ce
             ELSE SetCovarLosses(DictSet(adv_results, AdvKey(covar), ce.val), Tail(keys), covars_pred, covars_dict)

\* the loop "for covar in covars_encoder.keys(): adv_results[f'penalty_{covar}'] = ..."
RECURSIVE SetCovarPenalties(_, _, _, _)
SetCovarPenalties(adv_results, keys, self, latent_basal) ==
    IF keys = <<>> THEN adv_results
    ELSE LET covar == Head(keys)
         IN  SetCovarPenalties(DictSet(adv_results, PenaltyKey(covar), GradPenalty(self, 20 + CovarTag(covar), self.covars_encoder[covar], latent_basal)), Tail(keys), self, latent_basal)

\* CPAModule.adversarial_loss: the adv_results mapping, or the exception raised
AdversarialLoss(self, t, io, go) ==
    LET drugs == DrugTargets(t)
        keys == KeyOrder(DOMAIN self.covars_encoder)
        r1 == SetCovarLosses(EmptyDict, keys, go.covars_pred, io.covars_dict)
        ced == CrossEntropyLoss(go.drugs_pred, drugs)
    IN  IF ~r1.ok THEN r1
        ELSE IF ~ced.ok THEN ced
        ELSE LET a2 == DictSet(r1.val, "adv_drugs", ced.val)
                 a3 == DictSet(a2, "adv_loss", a2["adv_drugs"] + SumSeq([n \in DOMAIN keys |-> a2[AdvKey(keys[n])]]))
                 a4 == SetCovarPenalties(a3, keys, self, io.latent_basal)
                 a5 == DictSet(a4, "penalty_drugs", GradPenalty(self, 10, self.n_drugs, io.latent_basal))
                 a6 == DictSet(a5, "penalty_adv", a5["penalty_drugs"] + SumSeq([n \in DOMAIN keys |-> a5[PenaltyKey(keys[n])]]))
             IN  Returned(a6)

---------------------------------------------------------------------------
(* The batches handed to the module.                                       *)

\* gene-expression profiles: in a batch of profile p, cell i has expression
\* GeneVector(p + i)
XProfiles == {0, 1}
GeneVector(q) == [g \in 1..NGenes |-> (g + q) % 3]

\* perturbation rows of a cell for max_comb_len = L: the control alone, and a
\* treatment (a pair of perturbations when L >= 2), padded with PADDING_IDX
PadCombo(c, L) == c \o [j \in 1..(L - Len(c)) |-> PADDING_IDX]
Combos(L) == {PadCombo(<<1>>, L), PadCombo(IF L >= 2 THEN <<2, 3>> ELSE <<2>>, L)}
DosesOf(combo) == [j \in DOMAIN combo |-> IF combo[j] = PADDING_IDX THEN 0 ELSE 1]

\* category indices of a cell: one index below the cardinality per covariate
CellCategories(covars_encoder) == {f \in [DOMAIN covars_encoder -> 0..1] : \A c \in DOMAIN covars_encoder : f[c] < covars_encoder[c]}

Cells(self, L) == [drugs : Combos(L), cats : CellCategories(self.covars_encoder)]

\* the tensors of a batch: expression (B, n_genes), perturbation indices and
\* dosages (B, L), and one (B, 1) tensor per covariate
MakeTensors(self, cells, p) ==
    [k \in {"X", "drug_name", "dose_value"} \cup DOMAIN self.covars_encoder |->
        IF k = "X" THEN [i \in DOMAIN cells |-> GeneVector(p + i)]
        ELSE IF k = "drug_name" THEN [i \in DOMAIN cells |-> cells[i].drugs]
        ELSE IF k = "dose_value" THEN [i \in DOMAIN cells |-> DosesOf(cells[i].drugs)]
        ELSE [i \in DOMAIN cells |-> <<cells[i].cats[k]>>]]

\* the noise the encoder may draw
Noise(self) == IF self.variational THEN {1} ELSE {0}

\* the directories of the file system that hold, or come to hold, a model
Dirs == {"./", "pretrained"}

---------------------------------------------------------------------------
(* The module's life: construction, then one pass over a batch.            *)

Init ==
    /\ module = None
    /\ construct_exc = ""
    /\ tensors = None
    /\ inference_outputs = None
    /\ generative_outputs = None
    /\ loss_out = None
    /\ adv_out = None
    /\ cf_outputs = None
    /\ dis_out = None
    /\ adata = None
    /\ setup_out = None
    /\ cls = [pert_encoder |-> None, covars_encoder |-> None]
    /\ CPA_REGISTRY_KEYS = [c \in {} |-> None]
    /\ r2_out = None
    /\ cpa = None
    /\ restored = None
    /\ disk = [dir_path \in Dirs |-> None]
    /\ latent_out = None
    /\ expression_out = None
    /\ train_out = None

\* CPAModule(...) with the likelihood, the encoder variant and the covariates
\* picked among the given ones
ConstructFrom(losses, variants, encoders) ==
    /\ module = None
    /\ construct_exc = ""
    /\ \E loss_ae \in losses, variational \in variants, covars_encoder \in encoders :
        LET r == CPAModuleInit(NGenes, NDrugs, covars_encoder, NLatent, loss_ae, variational, DefaultSeed)
        IN  /\ module' = IF r.ok THEN Some(r.val) ELSE None
            /\ construct_exc' = r.exc
    /\ UNCHANGED <<tensors, inference_outputs, generative_outputs, loss_out, adv_out, cf_outputs, dis_out, adata, setup_out, cls, CPA_REGISTRY_KEYS, r2_out, cpa, restored, disk, latent_out, expression_out, train_out>>

\* CPAModule(...): the caller picks the likelihood, the encoder variant and
\* the covariates
Construct == ConstructFrom(LossNames, BOOLEAN, CovarsEncoders)

\* module.inference(**module._get_inference_input(tensors)) on a batch
InferenceStep ==
    /\ IsSome(module)
    /\ tensors = None
    /\ \E L \in 1..MaxCombLen, B \in 1..MaxBatch :
        \E cells \in [1..B -> Cells(Get(module), L)], p \in XProfiles, eps \in Noise(Get(module)) :
            LET self == Get(module)
                t == MakeTensors(self, cells, p)
                inp == GetInferenceInput(self, t)
            IN  /\ tensors' = Some(t)
                /\ inference_outputs' = Some(Inference(self, inp.genes, inp.drugs, inp.doses, inp.covars_dict, eps))
    /\ UNCHANGED <<module, construct_exc, generative_outputs, loss_out, adv_out, cf_outputs, dis_out, adata, setup_out, cls, CPA_REGISTRY_KEYS, r2_out, cpa, restored, disk, latent_out, expression_out, train_out>>

\* module.generative(**module._get_generative_input(tensors, inference_outputs)),
\* as the forward pass does, or module.generative(latent=..., latent_basal=...)
\* called with the two latents alone
GenerativeStep ==
    /\ IsSome(inference_outputs)
    /\ Get(inference_outputs).ok
    /\ generative_outputs = None
    /\ LET self == Get(module)
           io == Get(inference_outputs).val
       IN  \E input_dict \in {GetGenerativeInput(self, Get(tensors), io), [latent |-> io.latent, latent_basal |-> io.latent_basal]} :
               generative_outputs' = Some(GenerativeKw(self, input_dict))
    /\ UNCHANGED <<module, construct_exc, tensors, inference_outputs, loss_out, adv_out, cf_outputs, dis_out, adata, setup_out, cls, CPA_REGISTRY_KEYS, r2_out, cpa, restored, disk, latent_out, expression_out, train_out>>

\* module.loss(tensors, inference_outputs, generative_outputs)
LossStep ==
    /\ IsSome(generative_outputs)
    /\ Get(generative_outputs).ok
    /\ loss_out = None
    /\ loss_out' = Some(Loss(Get(module), Get(tensors), Get(inference_outputs).val, Get(generative_outputs).val))
    /\ UNCHANGED <<module, construct_exc, tensors, inference_outputs, generative_outputs, adv_out, cf_outputs, dis_out, adata, setup_out, cls, CPA_REGISTRY_KEYS, r2_out, cpa, restored, disk, latent_out, expression_out, train_out>>

\* module.adversarial_loss(tensors, inference_outputs, generative_outputs)
AdversarialStep ==
    /\ IsSome(generative_outputs)
    /\ Get(generative_outputs).ok
    /\ adv_out = None
    /\ adv_out' = Some(AdversarialLoss(Get(module), Get(tensors), Get(inference_outputs).val, Get(generative_outputs).val))
    /\ UNCHANGED <<module, construct_exc, tensors, inference_outputs, generative_outputs, loss_out, cf_outputs, dis_out, adata, setup_out, cls, CPA_REGISTRY_KEYS, r2_out, cpa, restored, disk, latent_out, expression_out, train_out>>

\* a second inference + generative pass over the same cells' expression under
\* an alternative setting: every cell gets perturbation row combo and, of
\* every covariate, the category after its own
CounterfactualTensors(self, t, combo) ==
    [k \in DOMAIN t |->
        IF k = "X" THEN t[k]
        ELSE IF k = "drug_name" THEN [i \in DOMAIN t[k] |-> combo]
        ELSE IF k = "dose_value" THEN [i \in DOMAIN t[k] |-> DosesOf(combo)]
        ELSE [i \in DOMAIN t[k] |-> <<(t[k][i][1] + 1) % self.covars_encoder[k]>>]]

CounterfactualStep ==
    /\ IsSome(loss_out)
    /\ IsSome(adv_out)
    /\ cf_outputs = None
    /\ \E combo \in Combos(Len(Get(tensors)["drug_name"][1])), eps \in Noise(Get(module)) :
        LET self == Get(module)
            t == CounterfactualTensors(self, Get(tensors), combo)
            inp == GetInferenceInput(self, t)
            io == Inference(self, inp.genes, inp.drugs, inp.doses, inp.covars_dict, eps).val
            gin == GetGenerativeInput(self, t, io)
        IN  cf_outputs' = Some([tensors |-> t, inference_outputs |-> io, generative_outputs |-> Generative(self, gin.latent, gin.latent_basal)])
    /\ UNCHANGED <<module, construct_exc, tensors, inference_outputs, generative_outputs, loss_out, adv_out, dis_out, adata, setup_out, cls, CPA_REGISTRY_KEYS, r2_out, cpa, restored, disk, latent_out, expression_out, train_out>>

Next ==
    \/ Construct
    \/ InferenceStep
    \/ GenerativeStep
    \/ LossStep
    \/ AdversarialStep
    \/ CounterfactualStep

Spec == Init /\ [][Next]_vars

---------------------------------------------------------------------------
(* Properties of the forward pass.                                         *)

\* the state holds a returned outcome in variable o
HasReturned(o) == IsSome(o) /\ Get(o).ok

\* the covariate contribution of cell i alone: the sum over the covariates of
\* the embedding of the cell's own category
OwnCovariates(self, covars_dict, i) == [k \in 1..self.n_latent |-> SumOver(DOMAIN self.covars_encoder, [c \in DOMAIN self.covars_encoder |-> CovarEmbedding(self, c, covars_dict[c][i])[k]])]

\* C1: for every cell i of every batch, latent[i] = latent_basal[i] + the sum
\* over the covariates of the embedding of cell i's own category + the
\* treatment embedding of cell i
C1_LatentIsCellwiseSum ==
    HasReturned(inference_outputs) =>
        LET self == Get(module)
            io == Get(inference_outputs).val
            inp == GetInferenceInput(self, Get(tensors))
        IN  \A i \in DOMAIN io.latent :
                io.latent[i] = VecAdd(VecAdd(io.latent_basal[i], OwnCovariates(self, inp.covars_dict, i)), DrugNetwork(self, inp.drugs[i], inp.doses[i]))

\* C2: no module with an unsupported likelihood exists (the constructor
\* raised instead), and the loss step accepts the likelihood of every module
\* that was constructed
C2_LikelihoodAcceptedThroughout ==
    /\ IsSome(module) => Get(module).loss_ae \in {"gauss", "mse", "nb"}
    /\ construct_exc # "" => module = None
    /\ IsSome(loss_out) => Get(loss_out).ok

\* C3: the adversarial step scores the B rows of perturbation logits against
\* exactly B targets, and on a batch of two or more cells of a module with
\* covariates the adversarial step returns, whatever max_comb_len is
C3_OneDrugTargetPerCell ==
    IsSome(adv_out) =>
        LET B == Len(Get(tensors)["X"])
        IN  /\ DrugTargets(Get(tensors)).shape = <<B>>
            /\ B >= 2 => Get(adv_out).ok

\* C4: in the returned mapping, adv_loss = adv_drugs + the sum of adv_<covar>
\* and penalty_adv = penalty_drugs + the sum of penalty_<covar>, over all
\* covariates, the values being those stored in the returned mapping
C4_TotalsAreSumsOfStoredHeads ==
    HasReturned(adv_out) =>
        LET r == Get(adv_out).val
            covars == DOMAIN Get(module).covars_encoder
        IN  /\ r["adv_loss"] = r["adv_drugs"] + SumOver(covars, [c \in covars |-> r["adv_" \o c]])
            /\ r["penalty_adv"] = r["penalty_drugs"] + SumOver(covars, [c \in covars |-> r["penalty_" \o c]])

\* C5: the keys of the returned mapping are exactly adv_drugs, adv_loss,
\* penalty_drugs, penalty_adv, and adv_c and penalty_c for every covariate c
C5_ExactKeySet ==
    HasReturned(adv_out) =>
        LET covars == DOMAIN Get(module).covars_encoder
        IN  DOMAIN Get(adv_out).val = {"adv_drugs", "adv_loss", "penalty_drugs", "penalty_adv"} \cup {"adv_" \o c : c \in covars} \cup {"penalty_" \o c : c \in covars}

\* the adversarial step returned for a module with two covariates
C5_Witness ==
    /\ HasReturned(adv_out)
    /\ Cardinality(DOMAIN Get(module).covars_encoder) = 2
    /\ Cardinality(DOMAIN Get(adv_out).val) = 8

\* C6: two generative calls with the same basal latent return the same
\* perturbation logits and the same covariate logits, whatever the combined
\* latent of either call
C6_HeadsReadBasalOnly ==
    (IsSome(cf_outputs) /\ Get(cf_outputs).inference_outputs.latent_basal = Get(inference_outputs).val.latent_basal) =>
        /\ Get(cf_outputs).generative_outputs.drugs_pred = Get(generative_outputs).val.drugs_pred
        /\ Get(cf_outputs).generative_outputs.covars_pred = Get(generative_outputs).val.covars_pred

\* two calls with the same basal latent and different combined latents
C6_Witness ==
    /\ IsSome(cf_outputs)
    /\ Get(cf_outputs).inference_outputs.latent_basal = Get(inference_outputs).val.latent_basal
    /\ Get(cf_outputs).inference_outputs.latent # Get(inference_outputs).val.latent
    /\ Get(cf_outputs).tensors # Get(tensors)

\* C7: for a module with the count likelihood, the loss step on the module's
\* own inference and generative outputs returns a reconstruction loss
C7_CountLossReturns ==
    (IsSome(loss_out) /\ Get(module).loss_ae = "nb") => Get(loss_out).ok

---------------------------------------------------------------------------
(* CPAModule.disentanglement: cross-validated classifiers on latent codes. *)

\* largest evaluation batch handed to the disentanglement evaluator
MaxCells == 6
\* resolution of a score: ScoreScale stands for an accuracy of 1.0
ScoreScale == 2
\* the default fold count of the evaluator
DefaultFolds == 5

Min(a, b) == IF a <= b THEN a ELSE b

\* len(np.unique(y))
NUnique(y) == Cardinality({y[i] : i \in DOMAIN y})

\* number of entries of y equal to v
CountOf(y, v) == Cardinality({i \in DOMAIN y : y[i] = v})

\* cross_val_score(classifier, X, y, scoring = balanced accuracy, cv).mean()
\* for X of n_rows rows: raises when X and y differ in length, when cv < 2
\* and when every class has fewer than cv members; otherwise the mean
\* balanced accuracy, a value in [0, 1] (score, in units of 1 / ScoreScale)
CrossValScore(n_rows, y, cv, score) ==
    IF Len(y) # n_rows THEN Raised("ValueError: Found input variables with inconsistent numbers of samples")
    ELSE IF cv < 2 THEN Raised("ValueError: k-fold cross-validation requires n_splits=2 or more")
    ELSE IF \A i \in DOMAIN y : CountOf(y, y[i]) < cv THEN Raised("ValueError: n_splits cannot be greater than the number of members in each class")
    ELSE Returned(score)

\* an evaluator that fits a classifier for every covariate
ScoredCovarsAll(self) == KeyOrder(DOMAIN self.covars_encoder)

\* the covariates the evaluator fits a classifier for, in dict order
ScoredCovars(self) == SelectSeq(KeyOrder(DOMAIN self.covars_encoder), LAMBDA covar : self.covars_encoder[covar] > 1)

\* the cross_val_score calls of the evaluator, in the order of the code:
\* the latent code, the label, its values and the cv argument of each
FitPlan(self, t) ==
    LET drug_names == Flatten(t["drug_name"])
        covars == ScoredCovars(self)
        CovarFits(code) == [n \in DOMAIN covars |-> [latent |-> code, label |-> covars[n], y |-> Flatten(t[covars[n]]), cv |-> Min(DefaultFolds, NUnique(Flatten(t[covars[n]])))]]
    IN  <<[latent |-> "latent_basal", label |-> "drug_name", y |-> drug_names, cv |-> Min(DefaultFolds, NUnique(drug_names))]>>
        \o CovarFits("latent_basal")
        \o <<[latent |-> "latent", label |-> "drug_name", y |-> drug_names, cv |-> DefaultFolds]>>
        \o CovarFits("latent")

\* the total of the scores of the fits on latent code
ScoreTotal(plan, score, code) == SumSeq([n \in DOMAIN plan |-> IF plan[n].latent = code THEN score[n] ELSE 0])

\* CPAModule.disentanglement; score[n] is what the n-th fit returns when it
\* returns.  The outcome also lists the fits that were started and, when
\* all returned, their scores.
Disentanglement(self, t, io, go, score) ==
    LET plan == FitPlan(self, t)
        fit(n) == CrossValScore(Len(io[plan[n].latent]), plan[n].y, plan[n].cv, score[n])
        failed == {n \in DOMAIN plan : ~fit(n).ok}
    IN  IF failed # {}
        THEN LET first == CHOOSE n \in failed : \A m \in failed : n <= m
             IN  Raised(fit(first).exc) @@ [fits |-> SubSeq(plan, 1, first)]
        ELSE Returned(<<ScoreTotal(plan, score, "latent_basal"), ScoreTotal(plan, score, "latent")>>) @@ [fits |-> plan, scores |-> score]

\* the covars_encoder dictionaries of the evaluated modules
EvalEncoders == { [c \in {"cell_type"} |-> 2], [c \in {"batch"} |-> 1], [c \in {"cell_type", "batch"} |-> IF c = "batch" THEN 1 ELSE 2] }

\* an evaluation batch of B cells: the first n_treated cells are treated, the
\* others are controls; the first n_second cells are in the second category
\* of every covariate that has one
EvalCells(self, L, B, n_treated, n_second) ==
    [i \in 1..B |-> [drugs |-> PadCombo(IF i <= n_treated THEN <<2>> ELSE <<1>>, L),
                     cats |-> [c \in DOMAIN self.covars_encoder |-> IF self.covars_encoder[c] > 1 /\ i <= n_second THEN 1 ELSE 0]]]

\* CPAModule(...) with the default likelihood and encoder
ConstructGauss == ConstructFrom({"gauss"}, {FALSE}, EvalEncoders)

\* module.inference on an evaluation batch
EvalInferenceStep ==
    /\ IsSome(module)
    /\ tensors = None
    /\ \E L \in 1..MaxCombLen, B \in 1..MaxCells :
        \E n_treated \in 0..B, n_second \in 0..B :
            LET self == Get(module)
                t == MakeTensors(self, EvalCells(self, L, B, n_treated, n_second), 0)
                inp == GetInferenceInput(self, t)
            IN  /\ tensors' = Some(t)
                /\ inference_outputs' = Some(Inference(self, inp.genes, inp.drugs, inp.doses, inp.covars_dict, 0))
    /\ UNCHANGED <<module, construct_exc, generative_outputs, loss_out, adv_out, cf_outputs, dis_out, adata, setup_out, cls, CPA_REGISTRY_KEYS, r2_out, cpa, restored, disk, latent_out, expression_out, train_out>>

\* module.disentanglement(tensors, inference_outputs, generative_outputs)
DisentanglementStep ==
    /\ IsSome(generative_outputs)
    /\ dis_out = None
    /\ LET self == Get(module)
           n_fits == Len(FitPlan(self, Get(tensors)))
       IN  \E score \in [1..n_fits -> 0..ScoreScale] :
               dis_out' = Some(Disentanglement(self, Get(tensors), Get(inference_outputs).val, Get(generative_outputs).val, score))
    /\ UNCHANGED <<module, construct_exc, tensors, inference_outputs, generative_outputs, loss_out, adv_out, cf_outputs, adata, setup_out, cls, CPA_REGISTRY_KEYS, r2_out, cpa, restored, disk, latent_out, expression_out, train_out>>

NextDis ==
    \/ ConstructGauss
    \/ EvalInferenceStep
    \/ GenerativeStep
    \/ DisentanglementStep

SpecDis == Init /\ [][NextDis]_vars

\* C8: every cross-validated fit of the evaluator (perturbation label and
\* each covariate label, on the basal and on the combined latent) is given
\* the fold count min(5, number of distinct values of its label)
C8_FoldCountIsMinOfDefaultAndDistinct ==
    IsSome(dis_out) =>
        \A n \in DOMAIN Get(dis_out).fits :
            Get(dis_out).fits[n].cv = Min(DefaultFolds, NUnique(Get(dis_out).fits[n].y))

\* C9: both returned values (score on the basal latent, score on the
\* combined latent) are accuracies in [0, 1]
C9_ScoresAreAccuracies ==
    HasReturned(dis_out) =>
        \A n \in 1..2 : Get(dis_out).val[n] >= 0 /\ Get(dis_out).val[n] <= ScoreScale

---------------------------------------------------------------------------
(* CPA.setup_anndata: the perturbation vocabulary and the per-cell rows.   *)

\* largest number of cells of an annotated data set
MaxObs == 2

\* A str of an obs column is a sequence of lexemes: names, numerals and
\* separators.
Str(lexeme) == <<lexeme>>

RECURSIVE Concat(_)
Concat(lexemes) == IF lexemes = <<>> THEN "" ELSE Head(lexemes) \o Concat(Tail(lexemes))

\* str.split(sep)
RECURSIVE Split(_, _)
Split(str, sep) ==
    LET seps == {k \in DOMAIN str : str[k] = sep}
    IN  IF seps = {} THEN <<Concat(str)>>
        ELSE LET k == CHOOSE n \in seps : \A m \in seps : n <= m
             IN  <<Concat(SubSeq(str, 1, k - 1))>> \o Split(SubSeq(str, k + 1, Len(str)), sep)

\* sep.join(parts), for parts that are strs
RECURSIVE Join(_, _)
Join(parts, sep) ==
    IF parts = <<>> THEN <<>>
    ELSE IF Len(parts) = 1 THEN Head(parts)
    ELSE Head(parts) \o <<sep>> \o Join(Tail(parts), sep)

\* float(numeral), in tenths
Float(numeral) ==
    CASE numeral = "0.5" -> 5
      [] numeral = "1.0" -> 10
      [] numeral = "2.0" -> 20

\* the strings of the data in the order of sorted()
Lexicographic == <<"B", "T", "b1", "control", "drugA", "drugB">>

\* sorted(list(S))
Sorted(S) == SelectSeq(Lexicographic, LAMBDA name : name \in S)

\* the set of the entries of a sequence
Range(s) == {s[i] : i \in DOMAIN s}

\* a vocabulary that reserves no padding entry
PertsNamesUniqueNoPad(perturbations, control_group) ==
    <<control_group>> \o Sorted(UNION {Range(Split(perturbations[i], "+")) : i \in DOMAIN perturbations} \ {control_group})

\* the perturbation vocabulary built from the perturbation column
PertsNamesUnique(perturbations, control_group) ==
    <<"<PAD>", control_group>> \o Sorted(UNION {Range(Split(perturbations[i], "+")) : i \in DOMAIN perturbations} \ {control_group})

\* {pert: i for i, pert in enumerate(perts_names_unique)}
Enumerate(names) == [name \in Range(names) |-> (CHOOSE i \in DOMAIN names : names[i] = name /\ \A j \in DOMAIN names : names[j] = name => j <= i) - 1]

\* list(encoder.keys()): the names in the order of their insertion
Keys(encoder) == [i \in 1..Cardinality(DOMAIN encoder) |-> CHOOSE name \in DOMAIN encoder : encoder[name] = i - 1]

\* [v for _ in range(n)]
Repeat(v, n) == [k \in 1..(IF n > 0 THEN n ELSE 0) |-> v]

\* np.where(np.isin(perts_names_unique, parts))[0]: the positions, counted
\* from 0 and ascending, of the vocabulary entries that occur in parts
WhereIsIn(perts_names_unique, parts) ==
    LET hits == SelectSeq([i \in DOMAIN perts_names_unique |-> i], LAMBDA i : perts_names_unique[i] \in Range(parts))
    IN  [k \in DOMAIN hits |-> hits[k] - 1]

\* pert_map[condition]
PertRow(perts_names_unique, condition, max_comb_len) ==
    LET perts_list == WhereIsIn(perts_names_unique, Split(condition, "+"))
    IN  perts_list \o Repeat(PADDING_IDX, max_comb_len - Len(perts_list))

\* dose_map[dosage_str]
DoseRow(dosage_str, max_comb_len) ==
    LET parts == Split(dosage_str, "+")
        dosages_list == [k \in DOMAIN parts |-> Float(parts[k])]
    IN  dosages_list \o Repeat(0, max_comb_len - Len(dosages_list))

\* np.vstack(rows): raises unless the rows have one length
VStack(rows) ==
    IF \E i, j \in DOMAIN rows : Len(rows[i]) # Len(rows[j])
    THEN Raised("ValueError: all the input array dimensions except for the concatenation axis must match exactly")
    ELSE Returned(rows)

\* a default that gives one dosage to the whole combination
DefaultDosageSingle(condition) == Str("1.0")

\* '+'.join(['1.0' for _ in x.split('+')]): the dosage str generated for a
\* combination when no dosage column is given
DefaultDosage(condition) == Join([k \in DOMAIN Split(condition, "+") |-> Str("1.0")], "+")

\* the categorical mapping that registering a categorical obs field records:
\* the sorted distinct values of the column
CategoricalMapping(column) == Sorted({Concat(column[i]) : i \in DOMAIN column})

\* covars_encoder as built from the registered categorical mappings
CovarsEncoderOf(obs, keys) == [covar \in Range(keys) |-> Enumerate(CategoricalMapping(obs[covar]))]

\* CPA.setup_anndata(adata, perturbation_key, control_group, dosage_key,
\* batch_key, categorical_covariate_keys = ..., max_comb_len = ...) called
\* with class attributes cls0 and registry keys reg0: the outcome, and the
\* annotated data, class attributes and registry keys it leaves behind
SetupAnndata(cls0, reg0, ad, perturbation_key, control_group, dosage_key, batch_key, categorical_covariate_keys, max_comb_len) ==
    LET cells == 1..ad.n_obs
        fresh == cls0.pert_encoder = None
        dose_key == IF dosage_key = None THEN "CPA_dose_val" ELSE Get(dosage_key)
        obs1 == IF dosage_key = None
                THEN DictSet(ad.obs, dose_key, [i \in cells |-> DefaultDosage(ad.obs[perturbation_key][i])])
                ELSE ad.obs
        perturbations == obs1[perturbation_key]
        dosages == obs1[dose_key]
        category_key == "CPA_cat"
        keys == (IF batch_key = None THEN <<>> ELSE <<Get(batch_key)>>) \o categorical_covariate_keys \o <<perturbation_key>>
        obs2 == DictSet(obs1, category_key, [i \in cells |-> Join([k \in DOMAIN keys |-> obs1[keys[k]][i]], "_")])
        reg1 == [key \in {"PERTURBATION_KEY", "PERTURBATION_DOSAGE_KEY", "CAT_COV_KEYS", "MAX_COMB_LENGTH", "BATCH_KEY", "CATEGORY_KEY"} |->
                    CASE key = "PERTURBATION_KEY" -> perturbation_key
                      [] key = "PERTURBATION_DOSAGE_KEY" -> dose_key
                      [] key = "CAT_COV_KEYS" -> categorical_covariate_keys
                      [] key = "MAX_COMB_LENGTH" -> max_comb_len
                      [] key = "BATCH_KEY" -> batch_key
                      [] key = "CATEGORY_KEY" -> category_key] @@ reg0
        reg2 == IF fresh THEN DictSet(reg1, "PADDING_IDX", PADDING_IDX) ELSE reg1
        pert_encoder == IF fresh THEN Enumerate(PertsNamesUnique(perturbations, control_group)) ELSE Get(cls0.pert_encoder)
        perts_names_unique == IF fresh THEN PertsNamesUnique(perturbations, control_group) ELSE Keys(pert_encoder)
        data_perts == VStack([i \in cells |-> PertRow(perts_names_unique, perturbations[i], max_comb_len)])
        data_perts_dosages == VStack([i \in cells |-> DoseRow(dosages[i], max_comb_len)])
        obsm1 == DictSet(ad.obsm, "PERTURBATIONS", data_perts.val)
        obsm2 == DictSet(obsm1, "PERTURBATIONS_DOSAGES", data_perts_dosages.val)
        control_key == "CPA_" \o control_group
        obs3 == DictSet(obs2, control_key, [i \in cells |-> IF perturbations[i] = Str(control_group) THEN 1 ELSE 0])
        covar_keys == categorical_covariate_keys \o (IF batch_key = None THEN <<>> ELSE <<Get(batch_key)>>)
        covars_encoder == CovarsEncoderOf(obs3, covar_keys)
    IN  IF ~data_perts.ok
        THEN [out |-> data_perts, adata |-> [ad EXCEPT !.obs = obs2], cls |-> cls0, registry |-> reg2]
        ELSE IF ~data_perts_dosages.ok
        THEN [out |-> data_perts_dosages, adata |-> [ad EXCEPT !.obs = obs2, !.obsm = obsm1], cls |-> cls0, registry |-> reg2]
        ELSE [out |-> Returned(None),
              adata |-> [ad EXCEPT !.obs = obs3, !.obsm = obsm2],
              cls |-> [pert_encoder |-> IF fresh THEN Some(pert_encoder) ELSE cls0.pert_encoder,
                       covars_encoder |-> IF cls0.covars_encoder = None THEN Some(covars_encoder) ELSE cls0.covars_encoder],
              registry |-> DictSet(reg2, "CONTROL_KEY", control_key)]

\* the perturbation combinations of the data: the control alone, or up to
\* MaxCombLen distinct drugs in either order
Drugs == {"drugA", "drugB"}
Combinations ==
    {<<"control">>} \cup
    {c \in UNION {[1..n -> Drugs] : n \in 1..MaxCombLen} : \A j, k \in DOMAIN c : j # k => c[j] # c[k]}

\* the dosages given along a combination: the same for every drug, or one
\* that changes from drug to drug
Numerals == <<"1.0", "2.0", "0.5">>
DosagesOf(c) == { [k \in DOMAIN c |-> "1.0"], [k \in DOMAIN c |-> Numerals[((k - 1) % Len(Numerals)) + 1]] }

\* the (perturbation, dosage) pairs of strs a cell can carry
Conditions == UNION { { [condition |-> Join([k \in DOMAIN c |-> Str(c[k])], "+"), dose |-> Join([k \in DOMAIN d |-> Str(d[k])], "+")] : d \in DosagesOf(c) } : c \in Combinations }

\* adata.uns['deg']: the ranked differentially expressed genes per category
DegTable == [cov_cond \in {"control", "drugA"} |-> IF cov_cond = "drugA" THEN <<"g2", "g1">> ELSE <<"g1">>]

\* an annotated data set of the given cells; mixed says whether its cells
\* alternate between two cell types
AnnData(rows, mixed) ==
    [n_obs |-> Len(rows),
     obs |-> [column \in {"condition", "dose", "cell_type"} |->
                CASE column = "condition" -> [i \in DOMAIN rows |-> rows[i].condition]
                  [] column = "dose" -> [i \in DOMAIN rows |-> rows[i].dose]
                  [] column = "cell_type" -> [i \in DOMAIN rows |-> Str(IF mixed /\ i % 2 = 0 THEN "B" ELSE "T")]],
     obsm |-> EmptyDict,
     var_names |-> [g \in 1..NGenes |-> "g" \o ToString(g)],
     uns |-> [key \in {"deg"} |-> DegTable],
     manager |-> None]

\* n_deg_r2 when the caller does not pass it
DefaultNDegR2 == 10

\* adata.var_names.isin(genes).astype(int)
VarNamesIsIn(ad, genes) == [g \in DOMAIN ad.var_names |-> IF ad.var_names[g] \in Range(genes) THEN 1 ELSE 0]

\* cov_cond_map[cov_cond]: the mask of all the differentially expressed
\* genes of a category, all ones for a category without an entry
CovCondMap(ad, table, cov_cond) ==
    IF Concat(cov_cond) \in DOMAIN table
    THEN VarNamesIsIn(ad, table[Concat(cov_cond)])
    ELSE [g \in DOMAIN ad.var_names |-> 1]

\* cov_cond_map_r2[cov_cond]: the mask of the first n_deg_r2 of them
CovCondMapR2(ad, table, cov_cond, n_deg_r2) ==
    IF Concat(cov_cond) \in DOMAIN table
    THEN VarNamesIsIn(ad, SubSeq(table[Concat(cov_cond)], 1, Min(n_deg_r2, Len(table[Concat(cov_cond)]))))
    ELSE [g \in DOMAIN ad.var_names |-> 1]

\* the two masks that setup_anndata stacks for the cells; np_has_int says
\* whether the installed numpy still has the alias np.int
DegMasks(ad, deg_uns_key, deg_uns_cat_key, n_deg_r2, np_has_int) ==
    LET table == ad.uns[deg_uns_key]
        cov_conds == ad.obs[deg_uns_cat_key]
    IN  IF ~np_has_int /\ \E i \in DOMAIN cov_conds : Concat(cov_conds[i]) \in DOMAIN table
        THEN Raised("AttributeError: module 'numpy' has no attribute 'int'")
        ELSE Returned([mask |-> [i \in DOMAIN cov_conds |-> CovCondMap(ad, table, cov_conds[i])],
                       mask_r2 |-> [i \in DOMAIN cov_conds |-> CovCondMap(ad, table, cov_conds[i])]])

\* the AnnDataManager registered for the data: what it records of the call
Manager(dosage_key, max_comb_len, deg_uns_key, n_deg_r2) ==
    Some([setup_method_args |-> [dosage_key |-> dosage_key, max_comb_len |-> max_comb_len, deg_uns_key |-> deg_uns_key, n_deg_r2 |-> n_deg_r2]])

\* CPA.setup_anndata(..., deg_uns_key, deg_uns_cat_key, n_deg_r2 = ...): the
\* call with its differential-expression masks and its registration
SetupAnndataDeg(cls0, reg0, ad, perturbation_key, control_group, dosage_key, batch_key, categorical_covariate_keys, max_comb_len, deg_uns_key, deg_uns_cat_key, n_deg_r2, np_has_int) ==
    LET r == SetupAnndata(cls0, reg0, ad, perturbation_key, control_group, dosage_key, batch_key, categorical_covariate_keys, max_comb_len)
        registered == [r.adata EXCEPT !.manager = Manager(dosage_key, max_comb_len, deg_uns_key, n_deg_r2)]
        masks == DegMasks(r.adata, Get(deg_uns_key), Get(deg_uns_cat_key), IF n_deg_r2 = None THEN DefaultNDegR2 ELSE Get(n_deg_r2), np_has_int)
    IN  IF ~r.out.ok THEN r
        ELSE IF deg_uns_key = None THEN [r EXCEPT !.adata = registered]
        ELSE IF ~masks.ok THEN [out |-> masks, adata |-> r.adata, cls |-> cls0, registry |-> r.registry]
        ELSE [r EXCEPT !.adata = [registered EXCEPT !.obsm = DictSet(DictSet(r.adata.obsm, "DEG_MASK", masks.val.mask), "DEG_MASK_R2", masks.val.mask_r2)],
                       !.registry = DictSet(DictSet(r.registry, "DEG_MASK", "deg_mask"), "DEG_MASK_R2", "deg_mask_r2")]

\* the differential-expression arguments of a call
DegArgs == {[deg_uns_key |-> None, n_deg_r2 |-> None]} \cup {[deg_uns_key |-> Some("deg"), n_deg_r2 |-> n] : n \in {None, Some(1)}}

\* the caller reads a data set
ReadAnnData ==
    /\ adata = None
    /\ \E n \in 1..MaxObs : \E rows \in [1..n -> Conditions], mixed \in BOOLEAN :
           adata' = Some(AnnData(rows, mixed))
    /\ UNCHANGED <<module, construct_exc, tensors, inference_outputs, generative_outputs, loss_out, adv_out, cf_outputs, dis_out, setup_out, cls, CPA_REGISTRY_KEYS, r2_out, cpa, restored, disk, latent_out, expression_out, train_out>>

\* the caller reads one more cell, after a set-up, as a data set of its own
ReadQueryCell ==
    /\ IsSome(setup_out)
    /\ \E row \in Conditions :
           adata' = Some(AnnData(<<row>>, FALSE))
    /\ setup_out' = None
    /\ UNCHANGED <<module, construct_exc, tensors, inference_outputs, generative_outputs, loss_out, adv_out, cf_outputs, dis_out, cls, CPA_REGISTRY_KEYS, r2_out, cpa, restored, disk, latent_out, expression_out, train_out>>

\* CPA.setup_anndata(adata, "condition", "control", dosage_key, ...) with the
\* arguments picked among the given ones
SetupAnndataWith(dosage_keys, lengths, deg_args, numpys) ==
    /\ IsSome(adata)
    /\ setup_out = None
    /\ \E dosage_key \in dosage_keys, max_comb_len \in lengths, deg \in deg_args, np_has_int \in numpys :
           \E r \in {SetupAnndataDeg(cls, CPA_REGISTRY_KEYS, Get(adata), "condition", "control", dosage_key, None, <<"cell_type">>, max_comb_len,
                                   deg.deg_uns_key, Some("condition"), deg.n_deg_r2, np_has_int)} :
               /\ setup_out' = Some(r.out)
               /\ adata' = Some(r.adata)
               /\ cls' = r.cls
               /\ CPA_REGISTRY_KEYS' = r.registry
    /\ UNCHANGED <<module, construct_exc, tensors, inference_outputs, generative_outputs, loss_out, adv_out, cf_outputs, dis_out, r2_out, cpa, restored, disk, latent_out, expression_out, train_out>>

\* CPA.setup_anndata(adata, "condition", "control", dosage_key, ...)
SetupAnndataStep == SetupAnndataWith({None, Some("dose")}, 1..MaxCombLen, DegArgs, BOOLEAN)

NextSetup ==
    \/ ReadAnnData
    \/ ReadQueryCell
    \/ SetupAnndataStep

SpecSetup == Init /\ [][NextSetup]_vars

\* C10: in every cell that setup_anndata has written, the dosage in slot j
\* is the dosage the input gave for the perturbation whose index is in slot
\* j, however the names are ordered inside the '+'-joined combination
C10_SlotsAligned ==
    HasReturned(setup_out) =>
        LET ad == Get(adata)
            names == Keys(Get(cls.pert_encoder))
            perts == ad.obsm["PERTURBATIONS"]
            doses == ad.obsm["PERTURBATIONS_DOSAGES"]
        IN  \A i \in 1..ad.n_obs : \A j \in DOMAIN perts[i] :
                perts[i][j] # PADDING_IDX =>
                    LET parts == Split(ad.obs[CPA_REGISTRY_KEYS["PERTURBATION_KEY"]][i], "+")
                        given == Split(ad.obs[CPA_REGISTRY_KEYS["PERTURBATION_DOSAGE_KEY"]][i], "+")
                    IN  /\ j \in DOMAIN doses[i]
                        /\ \E k \in DOMAIN parts :
                               /\ parts[k] = names[perts[i][j] + 1]
                               /\ k \in DOMAIN given
                               /\ Float(given[k]) = doses[i][j]

\* the number of perturbations that the combination string of cell i names
NamedIn(ad, i) == Len(Split(ad.obs[CPA_REGISTRY_KEYS["PERTURBATION_KEY"]][i], "+"))

\* C11: every cell whose combination names k <= max_comb_len perturbations
\* has an index row and a dosage row of exactly max_comb_len entries, and
\* exactly the last max_comb_len - k slots of both hold the padding index
\* and the dosage 0.0
C11_RowsPaddedToMaxCombLen ==
    HasReturned(setup_out) =>
        LET ad == Get(adata)
            max_comb_len == CPA_REGISTRY_KEYS["MAX_COMB_LENGTH"]
            perts == ad.obsm["PERTURBATIONS"]
            doses == ad.obsm["PERTURBATIONS_DOSAGES"]
        IN  \A i \in 1..ad.n_obs :
                NamedIn(ad, i) <= max_comb_len =>
                    /\ Len(perts[i]) = max_comb_len
                    /\ Len(doses[i]) = max_comb_len
                    /\ \A j \in 1..max_comb_len :
                           /\ perts[i][j] = PADDING_IDX <=> j > NamedIn(ad, i)
                           /\ doses[i][j] = 0 <=> j > NamedIn(ad, i)

\* the perturbation names of a data set: those of every combination
NamesOf(ad) == UNION {Range(Split(ad.obs["condition"][i], "+")) : i \in 1..ad.n_obs}

\* C12: the vocabulary that setup_anndata builds maps the padding token, the
\* control group and every name of every combination one-to-one onto
\* 0..n-1, the padding token to 0 = PADDING_IDX and the control group to 1
C12_VocabularyIsDenseBijection ==
    [][(cls.pert_encoder = None /\ cls'.pert_encoder # None) =>
        LET pert_encoder == Get(cls'.pert_encoder)
            names == {"<PAD>", "control"} \cup NamesOf(Get(adata))
        IN  /\ DOMAIN pert_encoder = names
            /\ {pert_encoder[name] : name \in names} = 0..(Cardinality(names) - 1)
            /\ \A a, b \in names : pert_encoder[a] = pert_encoder[b] => a = b
            /\ pert_encoder["<PAD>"] = 0
            /\ pert_encoder["<PAD>"] = CPA_REGISTRY_KEYS'["PADDING_IDX"]
            /\ pert_encoder["control"] = 1]_vars

\* a vocabulary has been built from data that names both drugs
C12_Witness ==
    /\ HasReturned(setup_out)
    /\ IsSome(cls.pert_encoder)
    /\ {"drugA", "drugB"} \subseteq DOMAIN Get(cls.pert_encoder)

\* C20: after setup_anndata(dosage_key = None) every cell has one dosage of
\* 1.0 per perturbation named in its combination, and the registered dosage
\* key is the generated column 'CPA_dose_val'
C20_DefaultDosagePerName ==
    (HasReturned(setup_out) /\ "CPA_dose_val" \in DOMAIN Get(adata).obs) =>
        LET ad == Get(adata)
            doses == ad.obsm["PERTURBATIONS_DOSAGES"]
        IN  /\ CPA_REGISTRY_KEYS["PERTURBATION_DOSAGE_KEY"] = "CPA_dose_val"
            /\ \A i \in 1..ad.n_obs :
                   /\ Split(ad.obs["CPA_dose_val"][i], "+") = [k \in 1..NamedIn(ad, i) |-> "1.0"]
                   /\ Len(doses[i]) >= NamedIn(ad, i)
                   /\ \A j \in 1..NamedIn(ad, i) : doses[i][j] = Float("1.0")

\* setup_anndata(dosage_key = None) has returned on a cell with two drugs
C20_Witness ==
    /\ HasReturned(setup_out)
    /\ "CPA_dose_val" \in DOMAIN Get(adata).obs
    /\ \E i \in 1..Get(adata).n_obs : NamedIn(Get(adata), i) = 2

\* C17: when setup_anndata is given a differential-expression table, the
\* DEG_MASK row of every cell marks all the differentially expressed genes
\* of the cell's category and the DEG_MASK_R2 row marks only the first
\* n_deg_r2 of them (all ones in both when the category has no entry)
C17_MasksAreFullAndTopN ==
    (HasReturned(setup_out) /\ "DEG_MASK" \in DOMAIN Get(adata).obsm) =>
        LET ad == Get(adata)
            args == Get(ad.manager).setup_method_args
            n_deg_r2 == IF args.n_deg_r2 = None THEN DefaultNDegR2 ELSE Get(args.n_deg_r2)
            table == ad.uns[Get(args.deg_uns_key)]
        IN  \A i \in 1..ad.n_obs :
                /\ ad.obsm["DEG_MASK"][i] = CovCondMap(ad, table, ad.obs["condition"][i])
                /\ ad.obsm["DEG_MASK_R2"][i] = CovCondMapR2(ad, table, ad.obs["condition"][i], n_deg_r2)

\* C15: the mapping returned by the inference step contains the combined
\* and the basal latent; its dist_qz entry is a distribution exactly when
\* the module is variational and its library entry is not None exactly when
\* the likelihood is 'nb'
C15_InferenceOutputEntries ==
    HasReturned(inference_outputs) =>
        LET outputs == Get(inference_outputs).val
            self == Get(module)
        IN  /\ {"latent", "latent_basal", "dist_qz", "library"} \subseteq DOMAIN outputs
            /\ Len(outputs.latent) = Len(Get(tensors)["X"])
            /\ Len(outputs.latent_basal) = Len(Get(tensors)["X"])
            /\ outputs.dist_qz # None <=> self.variational
            /\ outputs.dist_qz # None => DOMAIN Get(outputs.dist_qz) = {"loc", "scale"}
            /\ outputs.library # None <=> self.loss_ae = "nb"

\* inference has returned on a variational module with the count likelihood
C15_Witness ==
    /\ HasReturned(inference_outputs)
    /\ Get(module).variational
    /\ Get(module).loss_ae = "nb"
    /\ Get(inference_outputs).val.library # None
    /\ Get(inference_outputs).val.dist_qz # None

---------------------------------------------------------------------------
(* CPAModule.r2_metric: sanitising and aggregation.                        *)

\* a float of a tensor: a finite number, or NaN (v = 0), +Inf (v = 1) or
\* -Inf (v = -1)
Finite(n) == [fin |-> TRUE, v |-> n]
NaN == [fin |-> FALSE, v |-> 0]
PosInf == [fin |-> FALSE, v |-> 1]
NegInf == [fin |-> FALSE, v |-> -1]

\* torch.nan_to_num(t, nan, neginf, posinf) of a (B, G) tensor
NanToNum(t, nan, neginf, posinf) ==
    [i \in DOMAIN t |-> [g \in DOMAIN t[i] |->
        IF t[i][g].fin THEN t[i][g]
        ELSE IF t[i][g] = NaN THEN Finite(nan)
        ELSE IF t[i][g] = NegInf THEN Finite(neginf)
        ELSE Finite(posinf)]]

\* whether every entry of a (B, G) tensor is finite
AllFinite(t) == \A i \in DOMAIN t : \A g \in DOMAIN t[i] : t[i][g].fin

\* the per-gene sums over the cells of a finite (B, G) tensor: B * t.mean(0)
ColumnSums(t) == [g \in DOMAIN t[1] |-> SumSeq([i \in DOMAIN t |-> t[i][g].v])]

\* B * B * t.var(0) of a finite (B, G) tensor
ColumnVars(t) == [g \in DOMAIN t[1] |-> Len(t) * SumSeq([i \in DOMAIN t |-> t[i][g].v * t[i][g].v]) - ColumnSums(t)[g] * ColumnSums(t)[g]]

\* r2_score(y_true, y_pred) = 1 - ss_res / ss_tot, kept as the two sums of
\* squares (a score of 1 or 0 when ss_tot = 0)
R2Score(y_true, y_pred) ==
    [ss_res |-> SumSeq([g \in DOMAIN y_true |-> (y_true[g] - y_pred[g]) * (y_true[g] - y_pred[g])]),
     ss_tot |-> SumSeq([g \in DOMAIN y_true |-> (Len(y_true) * y_true[g] - SumSeq(y_true)) * (Len(y_true) * y_true[g] - SumSeq(y_true))])]

\* CPAModule.r2_metric: the outcome and the three tensors it aggregates.
\* r2_score refuses an input that is not finite.
R2Metric(t, go) ==
    LET pred_mean == NanToNum(go["means"], 100, -1000, 1000)
        pred_var == NanToNum(go["variances"], 100, -1000, 1000)
        x == t["X"]
        aggregated == [pred_mean |-> pred_mean, pred_var |-> pred_var, x |-> x]
    IN  IF ~AllFinite(x) \/ ~AllFinite(pred_mean) \/ ~AllFinite(pred_var)
        THEN Raised("ValueError: Input contains NaN, infinity or a value too large") @@ [aggregated |-> aggregated]
        ELSE Returned(<<R2Score(ColumnSums(x), ColumnSums(pred_mean)),
                        R2Score(ColumnVars(x), [g \in DOMAIN x[1] |-> Len(x) * ColumnSums(pred_var)[g]])>>) @@ [aggregated |-> aggregated]

\* the entry that is not a finite number, if the batch has one: the tensor
\* and the position it is in, and what it is
Defects(B) == {None} \cup {Some([key |-> key, cell |-> i, gene |-> g, value |-> value]) :
                             key \in {"X", "means", "variances"}, i \in 1..B, g \in 1..NGenes, value \in {NaN, PosInf, NegInf}}

\* tensor key of an evaluation batch, with the defect in its place
WithDefect(key, values, defect) ==
    [i \in DOMAIN values |-> [g \in DOMAIN values[i] |->
        IF defect # None /\ Get(defect).key = key /\ Get(defect).cell = i /\ Get(defect).gene = g
        THEN Get(defect).value ELSE Finite(values[i][g])]]

\* an evaluation batch and the decoder's output for it
R2BatchStep ==
    /\ tensors = None
    /\ \E B \in 1..MaxBatch, p \in XProfiles :
        \E defect \in Defects(B) :
           /\ tensors' = Some([key \in {"X"} |-> WithDefect("X", [i \in 1..B |-> GeneVector(p + i)], defect)])
           /\ generative_outputs' = Some(Returned(
                  [means |-> WithDefect("means", [i \in 1..B |-> GeneVector(p + i + 1)], defect),
                   variances |-> WithDefect("variances", [i \in 1..B |-> [g \in 1..NGenes |-> 1 + ((p + i + g) % 2)]], defect)]))
    /\ UNCHANGED <<module, construct_exc, inference_outputs, loss_out, adv_out, cf_outputs, dis_out, adata, setup_out, cls, CPA_REGISTRY_KEYS, r2_out, cpa, restored, disk, latent_out, expression_out, train_out>>

\* module.r2_metric(tensors, inference_outputs, generative_outputs)
R2MetricStep ==
    /\ IsSome(tensors)
    /\ IsSome(generative_outputs)
    /\ r2_out = None
    /\ r2_out' = Some(R2Metric(Get(tensors), Get(generative_outputs).val))
    /\ UNCHANGED <<module, construct_exc, tensors, inference_outputs, generative_outputs, loss_out, adv_out, cf_outputs, dis_out, adata, setup_out, cls, CPA_REGISTRY_KEYS, cpa, restored, disk, latent_out, expression_out, train_out>>

NextR2 ==
    \/ R2BatchStep
    \/ R2MetricStep

SpecR2 == Init /\ [][NextR2]_vars

\* C16: every value that r2_metric aggregates (predicted means, predicted
\* variances and the observed expression) is finite, so that a NaN or an
\* Inf of an input never reaches the scores
C16_AggregatedValuesFinite ==
    IsSome(r2_out) =>
        /\ AllFinite(Get(r2_out).aggregated.pred_mean)
        /\ AllFinite(Get(r2_out).aggregated.pred_var)
        /\ AllFinite(Get(r2_out).aggregated.x)

---------------------------------------------------------------------------
(* CPA: instances, training, save and load.                                *)

\* a JSON object: its members as <<name, value>> pairs in document order
JsonObject(dict, keys) == [n \in DOMAIN keys |-> <<keys[n], dict[keys[n]]>>]

\* the dict a JSON object is parsed into (a repeated name keeps its last value)
DictOfObject(object) ==
    [name \in {object[n][1] : n \in DOMAIN object} |->
        object[CHOOSE n \in DOMAIN object : object[n][1] = name /\ \A m \in DOMAIN object : object[m][1] = name => m <= n][2]]

\* a parse that numbers the members of an object anew, from 1
DictOfObjectRenumbered(object) == [name \in {object[n][1] : n \in DOMAIN object} |-> CHOOSE n \in DOMAIN object : object[n][1] = name]

\* json.dumps(total_dict): the document written to CPA_info.json
JsonDumps(total_dict) ==
    [pert_encoder |-> JsonObject(total_dict.pert_encoder, Keys(total_dict.pert_encoder)),
     covars_encoder |-> JsonObject([covar \in DOMAIN total_dict.covars_encoder |-> JsonObject(total_dict.covars_encoder[covar], Keys(total_dict.covars_encoder[covar]))],
                                   KeyOrder(DOMAIN total_dict.covars_encoder))]

\* a parse of the pert_encoder member that numbers its names anew
PertEncoderRenumbered(document) == DictOfObjectRenumbered(document.pert_encoder)

\* the parse of the pert_encoder member of the document
PertEncoderOf(document) == DictOfObject(document.pert_encoder)

\* json.load(f): the dict read back from CPA_info.json
JsonLoad(document) ==
    [pert_encoder |-> PertEncoderOf(document),
     covars_encoder |-> [covar \in DOMAIN DictOfObject(document.covars_encoder) |-> DictOfObject(DictOfObject(document.covars_encoder)[covar])]]

\* CPA.__init__(adata, **hyper_params) under class attributes cls0: the
\* instance, or the exception raised
CPAInit(cls0, ad, loss_ae) ==
    IF ad.manager = None THEN Raised("ValueError: Please set up your AnnData with CPA.setup_anndata first.")
    ELSE IF cls0.pert_encoder = None THEN Raised("AttributeError: 'NoneType' object has no attribute 'keys'")
    ELSE LET pert_encoder == Get(cls0.pert_encoder)
             covars_encoder == Get(cls0.covars_encoder)
             made == CPAModuleInit(Len(ad.var_names), Cardinality(DOMAIN pert_encoder),
                                   [covar \in DOMAIN covars_encoder |-> Cardinality(DOMAIN covars_encoder[covar])],
                                   NLatent, loss_ae, FALSE, DefaultSeed)
         IN  IF ~made.ok THEN made
             ELSE Returned([adata |-> ad,
                            drugs |-> Keys(pert_encoder),
                            covars |-> [covar \in DOMAIN covars_encoder |-> Keys(covars_encoder[covar])],
                            module |-> made.val,
                            is_trained_ |-> FALSE,
                            epoch_history |-> None])

\* what the base class writes of a model: its attributes and its registry
ModelFile(self) ==
    [is_trained_ |-> self.is_trained_, loss_ae |-> self.module.loss_ae, n_perts |-> self.module.n_drugs,
     setup_method_args |-> Get(self.adata.manager).setup_method_args]

\* CPA.save(dir_path, overwrite): CPA_info.json and the history are written
\* first; the base class then refuses a directory that exists, as dir_path
\* by now does, unless overwrite is set
Save(self, cls0, dsk, dir_path, overwrite) ==
    LET old == dsk[dir_path]
        info == JsonDumps([pert_encoder |-> Get(cls0.pert_encoder), covars_encoder |-> Get(cls0.covars_encoder)])
        written == [info |-> info,
                    history |-> IF self.epoch_history # None THEN Some("history.csv") ELSE IF old = None THEN None ELSE Get(old).history,
                    model |-> IF old = None THEN None ELSE Get(old).model]
    IN  IF ~overwrite
        THEN [out |-> Raised("ValueError: dir_path already exists. Please provide another directory for saving."),
              self |-> self, disk |-> [dsk EXCEPT ![dir_path] = Some(written)]]
        ELSE [out |-> Returned(None), self |-> self,
              disk |-> [dsk EXCEPT ![dir_path] = Some([written EXCEPT !.model = Some(ModelFile(self))])]]

\* the ways the caller passes save_path to train: not at all, False, a path
SavePaths == {"None", "False", "./"}

\* a train that saves the model before the training run
TrainSavingFirst(self, cls0, dsk, save_path, completes) ==
    LET trained == [self EXCEPT !.is_trained_ = TRUE, !.epoch_history = Some("DataFrame")]
        dir_path == IF save_path = "None" THEN "./" ELSE save_path
        saved == IF save_path = "False" THEN [out |-> Returned(None), self |-> self, disk |-> dsk] ELSE Save(self, cls0, dsk, dir_path, TRUE)
        saves == IF save_path = "False" THEN <<>> ELSE <<[dir_path |-> dir_path, overwrite |-> TRUE, self |-> self]>>
    IN  IF ~completes THEN [out |-> Raised("Exception: raised by the training run"), self |-> self, disk |-> saved.disk, saves |-> saves]
        ELSE [out |-> Returned(None), self |-> trained, disk |-> saved.disk, saves |-> saves]

\* CPA.train(save_path = ...): completes says whether the training run
\* returns; a completed run marks the model trained, its history is set, and
\* the model is then saved unless save_path is False; saves lists the calls
\* of save that train made, each with the model as it was saved
Train(self, cls0, dsk, save_path, completes) ==
    IF ~completes THEN [out |-> Raised("Exception: raised by the training run"), self |-> self, disk |-> dsk, saves |-> <<>>]
    ELSE LET trained == [self EXCEPT !.is_trained_ = TRUE, !.epoch_history = Some("DataFrame")]
             dir_path == IF save_path = "None" THEN "./" ELSE save_path
         IN  IF save_path = "False" THEN [out |-> Returned(None), self |-> trained, disk |-> dsk, saves |-> <<>>]
             ELSE Save(trained, cls0, dsk, dir_path, TRUE) @@ [saves |-> <<[dir_path |-> dir_path, overwrite |-> TRUE, self |-> trained]>>]

\* the base class's load once the adata has been set up with the saved
\* arguments (r is what setup_anndata gave): the instance is constructed and
\* the saved state restored into it
Restore(r, file, history) ==
    LET made == CPAInit(r.cls, r.adata, file.loss_ae)
        out == IF ~r.out.ok THEN r.out
               ELSE IF ~made.ok THEN made
               ELSE IF made.val.module.n_drugs # file.n_perts THEN Raised("RuntimeError: size mismatch in load_state_dict")
               ELSE Returned([made.val EXCEPT !.is_trained_ = file.is_trained_,
                                              !.epoch_history = IF history # None THEN Some("DataFrame") ELSE None])
    IN  [out |-> out, cls |-> r.cls, registry |-> r.registry, adata |-> Some(r.adata)]

\* CPA.load(dir_path, adata): the class attributes are assigned from
\* CPA_info.json, then the base class restores the model: it needs the
\* model file and an adata, sets the adata up with the saved arguments and
\* constructs the instance
Load(cls0, reg0, dsk, dir_path, adata_arg) ==
    IF dsk[dir_path] = None
    THEN [out |-> Raised("FileNotFoundError: CPA_info.json"), cls |-> cls0, registry |-> reg0, adata |-> adata_arg]
    ELSE LET total_dict == JsonLoad(Get(dsk[dir_path]).info)
             cls1 == [pert_encoder |-> Some(total_dict.pert_encoder), covars_encoder |-> Some(total_dict.covars_encoder)]
             file == Get(dsk[dir_path]).model
         IN  IF file = None
             THEN [out |-> Raised("FileNotFoundError: model.pt"), cls |-> cls1, registry |-> reg0, adata |-> adata_arg]
             ELSE IF adata_arg = None
             THEN [out |-> Raised("ValueError: Save path contains no saved anndata and no adata was passed."), cls |-> cls1, registry |-> reg0, adata |-> adata_arg]
             ELSE LET args == Get(file).setup_method_args
                  IN  CHOOSE restored_model \in
                          { Restore(r, Get(file), Get(dsk[dir_path]).history) :
                              r \in {SetupAnndataDeg(cls1, reg0, Get(adata_arg), "condition", "control", args.dosage_key, None, <<"cell_type">>,
                                                     args.max_comb_len, args.deg_uns_key, Some("condition"), args.n_deg_r2, TRUE)} } : TRUE

\* the methods that CPAModule defines
ModuleMethods == {"_get_inference_input", "inference", "_get_generative_input", "generative", "loss", "adversarial_loss",
                  "r2_metric", "disentanglement", "get_expression", "get_drug_embeddings"}

\* the batch the data loader makes of the cells of a set-up adata
LoaderTensors(self, cls0, ad) ==
    [key \in {"X", "drug_name", "dose_value"} \cup DOMAIN self.module.covars_encoder |->
        IF key = "X" THEN [i \in 1..ad.n_obs |-> GeneVector(i)]
        ELSE IF key = "drug_name" THEN ad.obsm["PERTURBATIONS"]
        ELSE IF key = "dose_value" THEN ad.obsm["PERTURBATIONS_DOSAGES"]
        ELSE [i \in 1..ad.n_obs |-> <<Get(cls0.covars_encoder)[key][Concat(ad.obs[key][i])]>>]]

\* get_latent_representation past its guard: the data loader is read and
\* each batch goes through the module
LatentsOfBatches(self, cls0) ==
    IF "mixup_data" \notin ModuleMethods
    THEN Raised("AttributeError: 'CPAModule' object has no attribute 'mixup_data'") @@ [batches_read |-> 1]
    ELSE LET inp == GetInferenceInput(self.module, LoaderTensors(self, cls0, self.adata))
             outputs == Inference(self.module, inp.genes, inp.drugs, inp.doses, inp.covars_dict, 0)
         IN  IF ~outputs.ok THEN outputs @@ [batches_read |-> 1]
             ELSE IF ~({"z_basal", "z", "z_corrected"} \subseteq DOMAIN outputs.val)
             THEN Raised("KeyError: 'z_basal'") @@ [batches_read |-> 1]
             ELSE Returned([latent_corrected |-> outputs.val["z_corrected"], latent_basal |-> outputs.val["z_basal"], latent_after |-> outputs.val["z"]])
                  @@ [batches_read |-> 1]

\* a call that does not ask whether the model is trained
GetLatentUnguarded(self, cls0) == LatentsOfBatches(self, cls0)

\* CPA.get_latent_representation(): the outcome, and how many batches the
\* call took from the data loader
GetLatentRepresentation(self, cls0) ==
    IF self.is_trained_ = FALSE
    THEN Raised("RuntimeError: Please train the model first.") @@ [batches_read |-> 0]
    ELSE LatentsOfBatches(self, cls0)

\* the data set of another study, and the directory that an earlier process
\* left of the model trained on it
PretrainedData ==
    AnnData(<<[condition |-> Str("control"), dose |-> Str("1.0")], [condition |-> Str("drugB"), dose |-> Str("1.0")]>>, TRUE)
PretrainedDir ==
    CHOOSE document \in
        { Train(CPAInit(r.cls, r.adata, "gauss").val, r.cls, [dir_path \in Dirs |-> None], "pretrained", TRUE).disk["pretrained"] :
            r \in {SetupAnndataDeg([pert_encoder |-> None, covars_encoder |-> None], EmptyDict, PretrainedData, "condition", "control",
                                   Some("dose"), None, <<"cell_type">>, MaxCombLen, None, Some("condition"), None, TRUE)} } : TRUE

\* the two instances a run keeps: the one made by CPA(adata) and the one
\* returned by CPA.load
Instances == {"cpa", "restored"}
Instance(which) == IF which = "cpa" THEN cpa ELSE restored

\* the cells of the study at hand: a control cell or a cell given one drug
StudyCells == {row \in Conditions : row.condition \in {Str("control"), Str("drugA")}}

\* the caller reads the cell of the study
ReadCell ==
    /\ adata = None
    /\ \E row \in StudyCells : adata' = Some(AnnData(<<row>>, FALSE))
    /\ UNCHANGED <<module, construct_exc, tensors, inference_outputs, generative_outputs, loss_out, adv_out, cf_outputs, dis_out, setup_out, cls, CPA_REGISTRY_KEYS, r2_out, cpa, restored, disk, latent_out, expression_out, train_out>>

\* CPA.setup_anndata(adata, "condition", "control", "dose", max_comb_len = ...)
SetupForModel == SetupAnndataWith({Some("dose")}, {MaxCombLen}, {[deg_uns_key |-> None, n_deg_r2 |-> None]}, {TRUE})

\* the caller fetches the directory of a model trained elsewhere
FetchPretrained ==
    /\ disk["pretrained"] = None
    /\ disk' = [disk EXCEPT !["pretrained"] = PretrainedDir]
    /\ UNCHANGED <<module, construct_exc, tensors, inference_outputs, generative_outputs, loss_out, adv_out, cf_outputs, dis_out, adata, setup_out, cls, CPA_REGISTRY_KEYS, r2_out, cpa, restored, latent_out, expression_out, train_out>>

\* model = CPA(adata)
NewCPA ==
    /\ cpa = None
    /\ IsSome(adata)
    /\ \E made \in {CPAInit(cls, Get(adata), "gauss")} :
           /\ made.ok
           /\ cpa' = Some(made.val)
    /\ UNCHANGED <<module, construct_exc, tensors, inference_outputs, generative_outputs, loss_out, adv_out, cf_outputs, dis_out, adata, setup_out, cls, CPA_REGISTRY_KEYS, r2_out, restored, disk, latent_out, expression_out, train_out>>

\* model.train(save_path = ...)
TrainStep ==
    /\ train_out = None
    /\ \E which \in Instances, save_path \in SavePaths, completes \in BOOLEAN :
           /\ IsSome(Instance(which))
           /\ \E r \in {Train(Get(Instance(which)), cls, disk, save_path, completes)} :
                  /\ cpa' = IF which = "cpa" THEN Some(r.self) ELSE cpa
                  /\ restored' = IF which = "restored" THEN Some(r.self) ELSE restored
                  /\ disk' = r.disk
                  /\ train_out' = Some(r.out @@ [which |-> which, save_path |-> save_path, saves |-> r.saves])
    /\ UNCHANGED <<module, construct_exc, tensors, inference_outputs, generative_outputs, loss_out, adv_out, cf_outputs, dis_out, adata, setup_out, cls, CPA_REGISTRY_KEYS, r2_out, latent_out, expression_out>>

\* model.save(dir_path, overwrite = ...)
SaveStep ==
    /\ \E which \in Instances, dir_path \in Dirs, overwrite \in BOOLEAN :
           /\ IsSome(Instance(which))
           /\ disk' = Save(Get(Instance(which)), cls, disk, dir_path, overwrite).disk
    /\ UNCHANGED <<module, construct_exc, tensors, inference_outputs, generative_outputs, loss_out, adv_out, cf_outputs, dis_out, adata, setup_out, cls, CPA_REGISTRY_KEYS, r2_out, cpa, restored, latent_out, expression_out, train_out>>

\* CPA.load(dir_path, adata), with the adata at hand or with none
LoadStep ==
    /\ \E dir_path \in Dirs, adata_arg \in {None, adata} :
           \E r \in {Load(cls, CPA_REGISTRY_KEYS, disk, dir_path, adata_arg)} :
               /\ cls' = r.cls
               /\ CPA_REGISTRY_KEYS' = r.registry
               /\ adata' = IF adata_arg = None THEN adata ELSE r.adata
               /\ restored' = IF r.out.ok THEN Some(r.out.val) ELSE restored
    /\ UNCHANGED <<module, construct_exc, tensors, inference_outputs, generative_outputs, loss_out, adv_out, cf_outputs, dis_out, setup_out, r2_out, cpa, disk, latent_out, expression_out, train_out>>

\* model.get_latent_representation()
GetLatentStep ==
    /\ latent_out = None
    /\ \E which \in Instances :
           /\ IsSome(Instance(which))
           /\ latent_out' = Some(GetLatentRepresentation(Get(Instance(which)), cls) @@ [which |-> which])
    /\ UNCHANGED <<module, construct_exc, tensors, inference_outputs, generative_outputs, loss_out, adv_out, cf_outputs, dis_out, adata, setup_out, cls, CPA_REGISTRY_KEYS, r2_out, cpa, restored, disk, expression_out, train_out>>

NextLife ==
    \/ ReadCell
    \/ SetupForModel
    \/ FetchPretrained
    \/ NewCPA
    \/ TrainStep
    \/ SaveStep
    \/ LoadStep
    \/ GetLatentStep

SpecLife == Init /\ [][NextLife]_vars

\* the vocabularies an instance saw at construction are those it sees now
SeesItsVocabularies(self) ==
    /\ IsSome(cls.pert_encoder) /\ Keys(Get(cls.pert_encoder)) = self.drugs
    /\ IsSome(cls.covars_encoder) /\ DOMAIN Get(cls.covars_encoder) = DOMAIN self.covars
    /\ \A covar \in DOMAIN self.covars : Keys(Get(cls.covars_encoder)[covar]) = self.covars[covar]

InForce(c) == [pert_encoder |-> Get(c.pert_encoder), covars_encoder |-> Get(c.covars_encoder)]

IsTrained(instance) == IsSome(instance) /\ Get(instance).is_trained_

ScoredLabels(self) == {"drug_name"} \cup {covar \in DOMAIN self.covars_encoder : self.covars_encoder[covar] > 1}

\* C23: the evaluator never starts a fit for a covariate with a single
\* category; when it returns, each of the two totals is the sum of one
\* score for the perturbation label and one score for every covariate with
\* more than one category, and of nothing else
C23_SingleCategoryCovariatesSkipped ==
    IsSome(dis_out) =>
        LET self == Get(module)
            o == Get(dis_out)
            FitsOn(code, label) == {n \in DOMAIN o.fits : o.fits[n].latent = code /\ o.fits[n].label = label}
            codes == <<"latent_basal", "latent">>
        IN  /\ \A n \in DOMAIN o.fits : o.fits[n].label \in ScoredLabels(self)
            /\ o.ok =>
                   \A k \in DOMAIN codes :
                       /\ \A label \in ScoredLabels(self) : Cardinality(FitsOn(codes[k], label)) = 1
                       /\ o.val[k] = SumOver(ScoredLabels(self), [label \in ScoredLabels(self) |-> o.scores[CHOOSE n \in FitsOn(codes[k], label) : TRUE]])

\* the evaluator returned for a module with a two-category covariate and a
\* single-category one, every fit scoring above zero
C23_Witness ==
    /\ HasReturned(dis_out)
    /\ DOMAIN Get(module).covars_encoder = {"cell_type", "batch"}
    /\ Len(Get(dis_out).fits) = 4
    /\ \A n \in DOMAIN Get(dis_out).scores : Get(dis_out).scores[n] > 0

----------------------------------------------------------------------------
(* CPAModule.get_expression: a forward pass without the loss.              *)

\* self.forward(tensors, compute_loss=False): the inference step, then the
\* generative step on the keywords of _get_generative_input; the outcome
\* holds the generative outputs
Forward(self, t, eps) ==
    LET inp == GetInferenceInput(self, t)
        inference == Inference(self, inp.genes, inp.drugs, inp.doses, inp.covars_dict, eps)
    IN  IF ~inference.ok THEN inference
        ELSE GenerativeKw(self, GetGenerativeInput(self, t, inference.val))

\* CPAModule.get_expression(tensors): the (means, variances) pair, or the
\* exception raised
GetExpression(self, t, eps) ==
    LET forward == Forward(self, t, eps)
    IN  IF ~forward.ok THEN forward
        ELSE IF self.loss_ae \in {"gauss", "mse"} THEN Returned(<<forward.val.means, forward.val.variances>>)
        ELSE Raised("ValueError")

\* module.get_expression(tensors) on the batch at hand
GetExpressionStep ==
    /\ IsSome(tensors)
    /\ expression_out = None
    /\ \E eps \in Noise(Get(module)) : expression_out' = Some(GetExpression(Get(module), Get(tensors), eps))
    /\ UNCHANGED <<module, construct_exc, tensors, inference_outputs, generative_outputs, loss_out, adv_out, cf_outputs, dis_out, adata, setup_out, cls, CPA_REGISTRY_KEYS, r2_out, cpa, restored, disk, latent_out, train_out>>

NextExpression ==
    \/ Construct
    \/ InferenceStep
    \/ GetExpressionStep

SpecExpression == Init /\ [][NextExpression]_vars

\* C21: on a module with covariates, get_expression returns the decoder's
\* (means, variances) pair of the batch when the likelihood is 'gauss' or
\* 'mse', and raises ValueError for every other likelihood, 'nb' included
C21_PairOrValueError ==
    (IsSome(expression_out) /\ DOMAIN Get(module).covars_encoder # {}) =>
        LET self == Get(module)
            o == Get(expression_out)
        IN  /\ self.loss_ae \in {"gauss", "mse"} =>
                  /\ o.ok
                  /\ \A i \in DOMAIN Get(tensors)["X"] :
                         /\ o.val[1][i] = DecoderGaussMean(self, Get(inference_outputs).val.latent[i])
                         /\ o.val[2][i] = DecoderGaussVar(self, Get(inference_outputs).val.latent[i])
            /\ self.loss_ae \notin {"gauss", "mse"} => (~o.ok /\ o.exc = "ValueError")

=============================================================================
